---- MODULE Spec2Model ----
(***************************************************************************)
(* chronos: the Ontology (schemas, entities, dependency graph) of          *)
(* chronos/ontology.py and the Navigator's multi_entity_schedule.          *)
(*                                                                         *)
(* Times are integers in tenths of a time unit (dt 0.5 is 5), a            *)
(* probability is a percentage (prob 1.0 is 100), and the weights of the   *)
(* InnovationMetric are in halves (weight 1.5 is 3).  A Python dict is a   *)
(* function on the set of its keys; _entities, whose insertion order       *)
(* entities() exposes, is a sequence of Entity records.  A formatted       *)
(* event id "<entity_id>::goal::<goal_name>" is the tuple of its parts.     *)
(***************************************************************************)
EXTENDS Integers, Sequences, FiniteSets, TLC

VARIABLES schemas, entities, deps, outcome, combined, owner

vars == <<schemas, entities, deps, outcome, combined, owner>>

ontology == <<schemas, entities, deps>>

(***************************************************************************)
(* Bounds of the model and the inputs the operations are called with.      *)
(***************************************************************************)
\* at most this many (depender, dependee) pairs are linked
MaxEdges == 3
\* the "extend" generator stops growing a timeline at this length
MaxLen == 3

EntityIds == {"tea_entity", "whale_entity", "petunia_entity"}

TypeIds == {"tea-party", "whale", "petunia", "vogon-poetry"}

Kinds == {"supports", "blocks"}

\* Schema(type_id, mean_period, default_dt): the schemas add_schema is called with
Schema(type_id, mean_period, default_dt) ==
    [type_id |-> type_id, mean_period |-> mean_period, default_dt |-> default_dt]

SchemaPool ==
    { Schema("tea-party", 50, 5), Schema("whale", 100, 2),
      Schema("petunia", 150, 1), Schema("petunia", 70, 3) }

Generators == {"single", "keep", "empty", "extend"}

\* SpawnArgs(entity_id): the argument tuples spawn is called with for that id
Args(type_id, goal_name, generator, t0, priority) ==
    [type_id |-> type_id, goal_name |-> goal_name, generator |-> generator,
     t0 |-> t0, priority |-> priority]

SpawnArgs(entity_id) ==
    CASE entity_id = "tea_entity" ->
           { Args("tea-party", "tea-party-with-Vogon", "single", 0, 0),
             Args("tea-party", "tea-party-with-Vogon", "keep", 3, 1),
             \* a type_id no schema is ever registered under
             Args("vogon-poetry", "tea-party-with-Vogon", "single", 0, 0) }
      [] entity_id = "whale_entity" ->
           { Args("whale", "spontaneous-whale-appearance", "single", 0, 0),
             Args("whale", "spontaneous-whale-appearance", "extend", 0, 1) }
      [] OTHER ->
           { Args("petunia", "petunia-uprising", "empty", 0, 0) }

\* DepKinds(depender, dependee): the kinds add_dependency is called with for that
\* pair; the self-edge is tried on tea_entity, both kinds on whale -> tea
DepKinds(depender, dependee) ==
    IF depender = "whale_entity" /\ dependee = "tea_entity" THEN Kinds
    ELSE IF depender = dependee /\ depender # "tea_entity" THEN {}
    ELSE {"supports"}

(***************************************************************************)
(* Helpers.                                                                *)
(***************************************************************************)
Range(s) == { s[i] : i \in 1..Len(s) }

EmptyMap == [k \in {} |-> k]

\* d[k] = v on a dict
Put(d, k, v) == [x \in (DOMAIN d) \cup {k} |-> IF x = k THEN v ELSE d[x]]

MaxOf(S) == CHOOSE x \in S : \A y \in S : y <= x

MinOf(S) == CHOOSE x \in S : \A y \in S : x <= y

(***************************************************************************)
(* change_algebra: ChangeEvent and ChangeSet.                              *)
(***************************************************************************)
ChangeEvent(eid, t0, dt, prob, meta) ==
    [eid |-> eid, t0 |-> t0, dt |-> dt, prob |-> prob, meta |-> meta]

\* the value of a generator call: None, or a ChangeSet (a sequence of events)
None == [isNone |-> TRUE, events |-> <<>>]

ChangeSet(events) == [isNone |-> FALSE, events |-> events]

\* Python truth of `generator(ent)`: None and the empty ChangeSet are false
Truthy(r) == ~r.isNone /\ Len(r.events) > 0

(***************************************************************************)
(* Entity.                                                                 *)
(***************************************************************************)
Entity(eid, schema, goal, timeline, generator, priority) ==
    [eid |-> eid, schema |-> schema, goal |-> goal, timeline |-> timeline,
     generator |-> generator, priority |-> priority]

registered == { entities[i].eid : i \in 1..Len(entities) }

EntityOf(eid) == entities[CHOOSE i \in 1..Len(entities) : entities[i].eid = eid]

\* the generator functions handed to spawn, applied to an entity
Generate(ent) ==
    CASE ent.generator = "single" ->
           ChangeSet(<<ChangeEvent(<<ent.goal.eid[3]>>, 0, ent.schema.default_dt, 100, {})>>)
      [] ent.generator = "keep" -> None
      [] ent.generator = "empty" -> ChangeSet(<<>>)
      [] ent.generator = "extend" ->
           IF Len(ent.timeline) >= MaxLen THEN None
           ELSE ChangeSet(Append(ent.timeline,
                    ChangeEvent(<<"step", Len(ent.timeline)>>,
                                ent.timeline[Len(ent.timeline)].t0
                                  + ent.timeline[Len(ent.timeline)].dt,
                                ent.schema.default_dt, 50, {})))

(***************************************************************************)
(* Ontology.                                                               *)
(***************************************************************************)
\* dependencies_of looking the edges up in the wrong direction
dependencies_of_swapped(eid) ==
    { <<depender, deps[depender][eid]>> :
        depender \in { d \in DOMAIN deps : eid \in DOMAIN deps[d] } }

\* dependencies_of whose lookup never finds the entry
dependencies_of_missing(eid) == {}

\* dependencies_of returning (kind, other_eid) pairs
dependencies_of_kind_first(eid) ==
    IF eid \in DOMAIN deps
    THEN { <<deps[eid][dependee], dependee>> : dependee \in DOMAIN deps[eid] }
    ELSE {}

dependencies_of(eid) ==
    IF eid \in DOMAIN deps
    THEN { <<dependee, deps[eid][dependee]>> : dependee \in DOMAIN deps[eid] }
    ELSE {}

dependents_of(eid) ==
    { <<depender, deps[depender][eid]>> :
        depender \in { d \in DOMAIN deps : eid \in DOMAIN deps[d] } }

dependents(ent) == dependents_of(ent.eid)

\* _deps after a lookup that indexes the defaultdict: the entry is created
after_getitem(d, eid) == IF eid \in DOMAIN d THEN d ELSE Put(d, eid, EmptyMap)

\* _deps after self._deps.get(eid, {}): get never inserts into the defaultdict
after_get(d, eid) == d

\* effective_priority that forgets the base priority
effective_priority_pull(ent) == Cardinality(dependents(ent))

effective_priority(ent) == ent.priority + Cardinality(dependents(ent))

EdgePairs == { <<a, b>> \in EntityIds \X EntityIds : a \in DOMAIN deps /\ b \in DOMAIN deps[a] }

Init ==
    /\ schemas = EmptyMap
    /\ entities = <<>>
    /\ deps = EmptyMap
    /\ outcome = [op |-> "init", status |-> "ok", generated |-> FALSE]
    /\ combined = <<>>
    /\ owner = <<>>

Returned(op, status, generated) ==
    /\ outcome' = [op |-> op, status |-> status, generated |-> generated]
    /\ combined' = <<>>
    /\ owner' = <<>>

\* add_schema without the duplicate check: the dict entry is overwritten
add_schema_overwrite(schema) ==
    /\ schemas' = Put(schemas, schema.type_id, schema)
    /\ Returned("add_schema", "ok", FALSE)
    /\ UNCHANGED <<entities, deps>>

add_schema(schema) ==
    IF schema.type_id \in DOMAIN schemas
    THEN /\ Returned("add_schema", "DuplicateKey", FALSE)
         /\ UNCHANGED ontology
    ELSE /\ schemas' = Put(schemas, schema.type_id, schema)
         /\ Returned("add_schema", "ok", FALSE)
         /\ UNCHANGED <<entities, deps>>

\* spawn without the duplicate check: the dict entry is overwritten in place
spawn_overwrite(entity_id, a) ==
    IF a.type_id \notin DOMAIN schemas
    THEN /\ Returned("spawn", "NotFound", FALSE)
         /\ UNCHANGED ontology
    ELSE LET schema == schemas[a.type_id]
             goal_eid == <<entity_id, "goal", a.goal_name>>
             goal_ev == ChangeEvent(goal_eid, a.t0, 0, 100, {<<"priority", a.priority>>})
             timeline == <<goal_ev>>
             ent == Entity(entity_id, schema, goal_ev, timeline, a.generator, a.priority)
             r == Generate(ent)
             made == [ent EXCEPT !.timeline = IF Truthy(r) THEN r.events ELSE timeline]
         IN /\ entities' = IF entity_id \in registered
                           THEN [i \in 1..Len(entities) |->
                                   IF entities[i].eid = entity_id THEN made ELSE entities[i]]
                           ELSE Append(entities, made)
            /\ Returned("spawn", "ok", TRUE)
            /\ UNCHANGED <<schemas, deps>>

\* spawn that does not add the goal event to the timeline it seeds
spawn_unseeded(entity_id, a) ==
    IF entity_id \in registered
    THEN /\ Returned("spawn", "DuplicateKey", FALSE)
         /\ UNCHANGED ontology
    ELSE IF a.type_id \notin DOMAIN schemas
    THEN /\ Returned("spawn", "NotFound", FALSE)
         /\ UNCHANGED ontology
    ELSE LET schema == schemas[a.type_id]
             goal_eid == <<entity_id, "goal", a.goal_name>>
             goal_ev == ChangeEvent(goal_eid, a.t0, 0, 100, {<<"priority", a.priority>>})
             timeline == <<>>
             ent == Entity(entity_id, schema, goal_ev, timeline, a.generator, a.priority)
             r == Generate(ent)
         IN /\ entities' = Append(entities,
                  [ent EXCEPT !.timeline = IF Truthy(r) THEN r.events ELSE timeline])
            /\ Returned("spawn", "ok", TRUE)
            /\ UNCHANGED <<schemas, deps>>

\* spawn looking the schema up before the duplicate check
spawn_lookup_first(entity_id, a) ==
    IF a.type_id \notin DOMAIN schemas
    THEN /\ Returned("spawn", "NotFound", FALSE)
         /\ UNCHANGED ontology
    ELSE IF entity_id \in registered
    THEN /\ Returned("spawn", "DuplicateKey", FALSE)
         /\ UNCHANGED ontology
    ELSE LET schema == schemas[a.type_id]
             goal_eid == <<entity_id, "goal", a.goal_name>>
             goal_ev == ChangeEvent(goal_eid, a.t0, 0, 100, {<<"priority", a.priority>>})
             timeline == <<goal_ev>>
             ent == Entity(entity_id, schema, goal_ev, timeline, a.generator, a.priority)
             r == Generate(ent)
         IN /\ entities' = Append(entities,
                  [ent EXCEPT !.timeline = IF Truthy(r) THEN r.events ELSE timeline])
            /\ Returned("spawn", "ok", TRUE)
            /\ UNCHANGED <<schemas, deps>>

spawn(entity_id, a) ==
    IF entity_id \in registered
    THEN /\ Returned("spawn", "DuplicateKey", FALSE)
         /\ UNCHANGED ontology
    ELSE IF a.type_id \notin DOMAIN schemas
    THEN /\ Returned("spawn", "NotFound", FALSE)
         /\ UNCHANGED ontology
    ELSE LET schema == schemas[a.type_id]
             goal_eid == <<entity_id, "goal", a.goal_name>>
             goal_ev == ChangeEvent(goal_eid, a.t0, 0, 100, {<<"priority", a.priority>>})
             timeline == <<goal_ev>>
             ent == Entity(entity_id, schema, goal_ev, timeline, a.generator, a.priority)
             r == Generate(ent)
         IN /\ entities' = Append(entities,
                  [ent EXCEPT !.timeline = IF Truthy(r) THEN r.events ELSE timeline])
            /\ Returned("spawn", "ok", TRUE)
            /\ UNCHANGED <<schemas, deps>>

\* regenerate without the `or self.timeline`
regenerate_replace(eid) ==
    /\ eid \in registered
    /\ LET i == CHOOSE j \in 1..Len(entities) : entities[j].eid = eid
           r == Generate(entities[i])
       IN entities' = [entities EXCEPT ![i].timeline = r.events]
    /\ Returned("regenerate", "ok", TRUE)
    /\ UNCHANGED <<schemas, deps>>

\* regenerate running the generator of every entity
regenerate_all(eid) ==
    /\ eid \in registered
    /\ entities' = [i \in 1..Len(entities) |->
                       LET r == Generate(entities[i])
                       IN [entities[i] EXCEPT !.timeline =
                              IF Truthy(r) THEN r.events ELSE @]]
    /\ Returned("regenerate", "ok", TRUE)
    /\ UNCHANGED <<schemas, deps>>

regenerate(eid) ==
    /\ eid \in registered
    /\ LET i == CHOOSE j \in 1..Len(entities) : entities[j].eid = eid
           r == Generate(entities[i])
       IN entities' = [entities EXCEPT ![i].timeline =
                           IF Truthy(r) THEN r.events ELSE @]
    /\ Returned("regenerate", "ok", TRUE)
    /\ UNCHANGED <<schemas, deps>>

\* add_dependency storing the edge under the dependee
add_dependency_reversed(depender, dependee, kind) ==
    IF depender \notin registered \/ dependee \notin registered
    THEN /\ Returned("add_dependency", "NotFound", FALSE)
         /\ UNCHANGED ontology
    ELSE /\ <<depender, dependee>> \in EdgePairs \/ Cardinality(EdgePairs) < MaxEdges
         /\ deps' = Put(deps, dependee,
                        Put(IF dependee \in DOMAIN deps THEN deps[dependee] ELSE EmptyMap,
                            depender, kind))
         /\ Returned("add_dependency", "ok", FALSE)
         /\ UNCHANGED <<schemas, entities>>

\* add_dependency rejecting only when both endpoints are missing
add_dependency_either(depender, dependee, kind) ==
    IF depender \notin registered /\ dependee \notin registered
    THEN /\ Returned("add_dependency", "NotFound", FALSE)
         /\ UNCHANGED ontology
    ELSE /\ <<depender, dependee>> \in EdgePairs \/ Cardinality(EdgePairs) < MaxEdges
         /\ deps' = Put(deps, depender,
                        Put(IF depender \in DOMAIN deps THEN deps[depender] ELSE EmptyMap,
                            dependee, kind))
         /\ Returned("add_dependency", "ok", FALSE)
         /\ UNCHANGED <<schemas, entities>>

\* add_dependency reading self._deps[depender] before the check: the
\* defaultdict creates the entry
add_dependency_touch(depender, dependee, kind) ==
    IF depender \notin registered \/ dependee \notin registered
    THEN /\ Returned("add_dependency", "NotFound", FALSE)
         /\ deps' = Put(deps, depender,
                        IF depender \in DOMAIN deps THEN deps[depender] ELSE EmptyMap)
         /\ UNCHANGED <<schemas, entities>>
    ELSE /\ <<depender, dependee>> \in EdgePairs \/ Cardinality(EdgePairs) < MaxEdges
         /\ deps' = Put(deps, depender,
                        Put(IF depender \in DOMAIN deps THEN deps[depender] ELSE EmptyMap,
                            dependee, kind))
         /\ Returned("add_dependency", "ok", FALSE)
         /\ UNCHANGED <<schemas, entities>>

\* add_dependency keeping the kind a pair already has (setdefault)
add_dependency_keep_first(depender, dependee, kind) ==
    IF depender \notin registered \/ dependee \notin registered
    THEN /\ Returned("add_dependency", "NotFound", FALSE)
         /\ UNCHANGED ontology
    ELSE /\ <<depender, dependee>> \in EdgePairs \/ Cardinality(EdgePairs) < MaxEdges
         /\ deps' = IF <<depender, dependee>> \in EdgePairs THEN deps
                    ELSE Put(deps, depender,
                             Put(IF depender \in DOMAIN deps THEN deps[depender] ELSE EmptyMap,
                                 dependee, kind))
         /\ Returned("add_dependency", "ok", FALSE)
         /\ UNCHANGED <<schemas, entities>>

add_dependency(depender, dependee, kind) ==
    IF depender \notin registered \/ dependee \notin registered
    THEN /\ Returned("add_dependency", "NotFound", FALSE)
         /\ UNCHANGED ontology
    ELSE /\ <<depender, dependee>> \in EdgePairs \/ Cardinality(EdgePairs) < MaxEdges
         /\ deps' = Put(deps, depender,
                        Put(IF depender \in DOMAIN deps THEN deps[depender] ELSE EmptyMap,
                            dependee, kind))
         /\ Returned("add_dependency", "ok", FALSE)
         /\ UNCHANGED <<schemas, entities>>

(***************************************************************************)
(* InnovationMetric: a weighted combination of time cost, scope (event     *)
(* count) and risk (what the events' probabilities lack of certainty).     *)
(***************************************************************************)
weight_time == 2

weight_scope == 3

weight_risk == 4

RECURSIVE SumOver(_, _)
SumOver(s, field) ==
    IF s = <<>> THEN 0
    ELSE (IF field = "dt" THEN s[1].dt ELSE (100 - s[1].prob) \div 50)
         + SumOver(Tail(s), field)

score(ent) ==
    weight_time * SumOver(ent.timeline, "dt")
    + weight_scope * Len(ent.timeline)
    + weight_risk * SumOver(ent.timeline, "risk")

(***************************************************************************)
(* Navigator.multi_entity_schedule.                                        *)
(***************************************************************************)
IndexOf(eid) == CHOOSE i \in 1..Len(entities) : entities[i].eid = eid

\* a is merged before b when both are eligible: higher effective priority,
\* then higher score, then insertion order
MergedFirst(a, b) ==
    LET ea == EntityOf(a)
        eb == EntityOf(b)
    IN \/ effective_priority(ea) > effective_priority(eb)
       \/ /\ effective_priority(ea) = effective_priority(eb)
          /\ \/ score(ea) > score(eb)
             \/ score(ea) = score(eb) /\ IndexOf(a) <= IndexOf(b)

\* step 1: the topological ordering, dependees first; cycle when entities
\* remain and none of them has all its dependees ordered
RECURSIVE topological_order(_, _)
topological_order(done, remaining) ==
    IF remaining = {} THEN [cycle |-> FALSE, order |-> done]
    ELSE LET eligible == { e \in remaining :
                             \A p \in dependencies_of(e) : p[1] \in Range(done) }
         IN IF eligible = {} THEN [cycle |-> TRUE, order |-> <<>>]
            ELSE LET best == CHOOSE e \in eligible : \A f \in eligible : MergedFirst(e, f)
                 IN topological_order(Append(done, best), remaining \ {best})

EndOf(events) == MaxOf({ events[i].t0 + events[i].dt : i \in 1..Len(events) })

StartOf(events) == MinOf({ events[i].t0 : i \in 1..Len(events) })

\* the latest end time of the events the dependees of eid contributed
ReadyAt(eid, finish) ==
    LET ends == { finish[p[1]] : p \in dependencies_of(eid) }
    IN IF ends = {} THEN 0 ELSE MaxOf(ends)

slack_event(eid, resume, gap) == ChangeEvent(<<"slack", eid>>, resume, gap, 100, {})

Shifted(events, gap) == [i \in 1..Len(events) |-> [events[i] EXCEPT !.t0 = @ + gap]]

\* step 2: walk the order, offsetting each entity's events behind its dependees
RECURSIVE merge(_, _)
merge(order, acc) ==
    IF order = <<>> THEN acc
    ELSE LET eid == Head(order)
             events == EntityOf(eid).timeline
             ready == ReadyAt(eid, acc.finish)
             waits == events # <<>> /\ dependencies_of(eid) # {} /\ StartOf(events) < ready
             gap == IF waits THEN ready - StartOf(events) ELSE 0
             placed == Shifted(events, gap)
             block == IF waits THEN <<slack_event(eid, ready, gap)>> \o placed ELSE placed
         IN merge(Tail(order),
                  [out |-> acc.out \o block,
                   owner |-> acc.owner \o [i \in 1..Len(block) |-> eid],
                   finish |-> Put(acc.finish, eid,
                                  IF placed = <<>> THEN ready ELSE EndOf(placed))])

\* _deps after the Navigator has read dependencies_of for every id in ids
RECURSIVE LookedUp(_, _)
LookedUp(d, ids) ==
    IF ids = {} THEN d
    ELSE LET eid == CHOOSE x \in ids : TRUE
         IN LookedUp(after_get(d, eid), ids \ {eid})

multi_entity_schedule ==
    LET t == topological_order(<<>>, registered)
        m == merge(t.order, [out |-> <<>>, owner |-> <<>>, finish |-> EmptyMap])
    IN /\ IF t.cycle
          THEN /\ outcome' = [op |-> "multi_entity_schedule", status |-> "CycleError",
                              generated |-> FALSE]
               /\ combined' = <<>>
               /\ owner' = <<>>
          ELSE /\ outcome' = [op |-> "multi_entity_schedule", status |-> "ok",
                              generated |-> FALSE]
               /\ combined' = m.out
               /\ owner' = m.owner
       /\ deps' = LookedUp(deps, registered)
       /\ UNCHANGED <<schemas, entities>>

\* a caller reading dependencies_of(eid)
lookup_dependencies_of(eid) ==
    /\ deps' = after_get(deps, eid)
    /\ Returned("dependencies_of", "ok", FALSE)
    /\ UNCHANGED <<schemas, entities>>

\* a caller reading dependents_of(eid): a scan of _deps.items()
lookup_dependents_of(eid) ==
    /\ Returned("dependents_of", "ok", FALSE)
    /\ UNCHANGED ontology

Next ==
    \/ \E schema \in SchemaPool : add_schema(schema)
    \/ \E entity_id \in EntityIds : \E a \in SpawnArgs(entity_id) : spawn(entity_id, a)
    \/ \E eid \in EntityIds : regenerate(eid)
    \/ \E depender \in EntityIds, dependee \in EntityIds :
           \E kind \in DepKinds(depender, dependee) : add_dependency(depender, dependee, kind)
    \/ multi_entity_schedule
    \/ \E eid \in EntityIds : lookup_dependencies_of(eid)
    \/ \E eid \in EntityIds : lookup_dependents_of(eid)

Spec == Init /\ [][Next]_vars

(***************************************************************************)
(* Vocabulary of the properties, stated on the stored edges themselves.    *)
(***************************************************************************)
DependsOn(a, b) == a \in DOMAIN deps /\ b \in DOMAIN deps[a]

Dependees(a) == { b \in EntityIds : DependsOn(a, b) }

Dependers(b) == { a \in EntityIds : DependsOn(a, b) }

RECURSIVE Reaches(_, _, _)
Reaches(a, b, n) ==
    /\ n > 0
    /\ \/ DependsOn(a, b)
       \/ \E c \in EntityIds : DependsOn(a, c) /\ Reaches(c, b, n - 1)

HasCycle == \E e \in EntityIds : Reaches(e, e, Cardinality(EntityIds))

Scheduled == outcome.op = "multi_entity_schedule" /\ outcome.status = "ok"

IsSlack(ev) == ev.eid[1] = "slack"

Positions(e) == { i \in 1..Len(owner) : owner[i] = e }

IsChain ==
    /\ registered = EntityIds
    /\ \A a, b \in EntityIds :
         DependsOn(a, b) <=> \/ a = "whale_entity" /\ b = "tea_entity"
                             \/ a = "petunia_entity" /\ b = "whale_entity"

ChainRank(e) ==
    CASE e = "tea_entity" -> 1 [] e = "whale_entity" -> 2 [] OTHER -> 3

\* C1: in a returned timeline every event of a dependee stands before every
\* event and slack event of each entity that depends on it; for the chain
\* tea <- whale <- petunia the blocks are tea's, whale's, petunia's.
C1_DependeesFirst ==
    Scheduled =>
      /\ Len(owner) = Len(combined)
      /\ \A i, j \in 1..Len(owner) : DependsOn(owner[j], owner[i]) => i < j
      /\ IsChain =>
           /\ \A e \in EntityIds : Positions(e) # {}
           /\ \A i, j \in 1..Len(owner) : i < j => ChainRank(owner[i]) <= ChainRank(owner[j])

C1_Witness ==
    /\ Scheduled
    /\ IsChain
    /\ \E i \in Positions("whale_entity") : IsSlack(combined[i])
    /\ \E i \in Positions("petunia_entity") : IsSlack(combined[i])

\* C2: whenever the stored edges hold a cycle (a self-edge, a 2-cycle or a
\* longer one), multi_entity_schedule ends with CycleError and returns no timeline.
C2_CycleError ==
    (outcome.op = "multi_entity_schedule" /\ HasCycle) =>
        (outcome.status = "CycleError" /\ combined = <<>> /\ owner = <<>>)

C2_Witness ==
    /\ outcome.op = "multi_entity_schedule"
    /\ outcome.status = "CycleError"
    /\ \A a, b \in EntityIds : DependsOn(a, b) => (a # b /\ ~DependsOn(b, a))

\* C3: spawn with an entity_id that is already registered fails with
\* DuplicateKey, does not call the generator, and leaves schemas, entities
\* and edges as they were.
C3_DuplicateSpawn ==
    [][outcome'.op = "spawn" =>
          \A e \in registered : \A a \in SpawnArgs(e) :
             spawn(e, a) =>
                /\ outcome'.status = "DuplicateKey"
                /\ ~outcome'.generated
                /\ ontology' = ontology]_vars

C3_Witness ==
    /\ outcome.op = "spawn"
    /\ outcome.status = "DuplicateKey"
    /\ Len(entities) = 2
    /\ deps # EmptyMap

\* C4: effective_priority is the base priority plus the number of stored
\* dependers, in every state; a successful add_dependency(d, e) for a pair
\* not linked before raises effective_priority(e) by 1 and no other one.
C4_PriorityNow ==
    \A i \in 1..Len(entities) :
       effective_priority(entities[i])
         = entities[i].priority + Cardinality(Dependers(entities[i].eid))

C4_NewDepender ==
    (outcome'.op = "add_dependency" /\ outcome'.status = "ok") =>
       \A d, e \in EntityIds : \A k \in DepKinds(d, e) :
          (~DependsOn(d, e) /\ add_dependency(d, e, k)) =>
             \A i \in 1..Len(entities) :
                effective_priority(entities[i])' =
                   effective_priority(entities[i]) + (IF entities[i].eid = e THEN 1 ELSE 0)

\* C4: both parts, the first on the state every step leads to
C4_EffectivePriority == [][C4_PriorityNow' /\ C4_NewDepender]_vars

C4_Witness ==
    /\ outcome.op = "add_dependency"
    /\ outcome.status = "ok"
    /\ \E i \in 1..Len(entities) :
          /\ effective_priority(entities[i]) = entities[i].priority + 2
          /\ DependsOn(entities[i].eid, entities[i].eid)

\* C5: both endpoints of every stored edge are registered entities.
C5_NoDanglingEdge ==
    \A a \in DOMAIN deps : a \in registered /\ \A b \in DOMAIN deps[a] : b \in registered

C5_Witness ==
    /\ outcome.op = "add_dependency"
    /\ outcome.status = "NotFound"
    /\ Len(entities) = 2
    /\ Cardinality({ p \in EntityIds \X EntityIds : DependsOn(p[1], p[2]) }) = MaxEdges

\* C6: add_dependency with a depender or a dependee that is not registered
\* fails with NotFound, stores no edge and creates no entry for the depender:
\* the dependency map, and so every lookup, is as before.
C6_NotFound ==
    [][outcome'.op = "add_dependency" =>
          \A d, e \in EntityIds : \A k \in DepKinds(d, e) :
             ((d \notin registered \/ e \notin registered) /\ add_dependency(d, e, k)) =>
                /\ outcome'.status = "NotFound"
                /\ DOMAIN deps' = DOMAIN deps
                /\ \A x \in EntityIds :
                     /\ dependencies_of(x)' = dependencies_of(x)
                     /\ dependents_of(x)' = dependents_of(x)
                /\ ontology' = ontology]_vars

C6_Witness ==
    /\ outcome.op = "add_dependency"
    /\ outcome.status = "NotFound"
    /\ Len(entities) = 1
    /\ deps # EmptyMap

(***************************************************************************)
(* What a returned timeline holds for one entity.                          *)
(***************************************************************************)
\* the priority the specification gives an entity: base priority plus dependers
ClaimedPriority(e) == EntityOf(e).priority + Cardinality(Dependers(e))

\* the events at the positions of e, in timeline order
Block(e) ==
    IF Positions(e) = {} THEN <<>>
    ELSE SubSeq(combined, MinOf(Positions(e)), MaxOf(Positions(e)))

Contiguous(e) ==
    \A i, k \in Positions(e) : \A j \in i..k : owner[j] = e

OwnEvents(e) == { i \in Positions(e) : ~IsSlack(combined[i]) }

\* the latest end time among the events the dependees of e contributed
DependeesEnd(e) ==
    MaxOf({ combined[j].t0 + combined[j].dt :
              j \in UNION { OwnEvents(d) : d \in Dependees(e) } })

\* C7: with no edge stored the returned timeline is the entities' timelines,
\* one block each and no slack event, the blocks in descending order of
\* effective priority and, at equal priority, of metric score.
C7_NoEdges ==
    (Scheduled /\ \A e \in EntityIds : Dependees(e) = {}) =>
      /\ Range(owner) = registered
      /\ \A i \in 1..Len(combined) : ~IsSlack(combined[i])
      /\ \A e \in registered : Contiguous(e) /\ Block(e) = EntityOf(e).timeline
      /\ \A i, j \in 1..Len(owner) :
           (i < j /\ owner[i] # owner[j]) =>
              \/ ClaimedPriority(owner[i]) > ClaimedPriority(owner[j])
              \/ /\ ClaimedPriority(owner[i]) = ClaimedPriority(owner[j])
                 /\ score(EntityOf(owner[i])) >= score(EntityOf(owner[j]))

C7_Witness ==
    /\ Scheduled
    /\ deps = EmptyMap
    /\ Len(entities) = 3
    /\ entities[1].priority < entities[2].priority
    /\ entities[2].priority = entities[3].priority
    /\ score(entities[2]) < score(entities[3])

\* C8: in a returned timeline no event of an entity that has dependees starts
\* before the latest end time (t0 + dt) of the events its dependees
\* contributed, shifted as those were by their own dependees.
C8_StartsAfterDependees ==
    Scheduled =>
      \A e \in registered :
         Dependees(e) # {} =>
            \A i \in Positions(e) : combined[i].t0 >= DependeesEnd(e)

C8_Witness ==
    /\ Scheduled
    /\ IsChain
    /\ \E i \in OwnEvents("whale_entity") :
          /\ combined[i].t0 > EntityOf("whale_entity").timeline[1].t0
          /\ \E j \in OwnEvents("petunia_entity") :
                /\ combined[j].t0 = DependeesEnd("petunia_entity")
                /\ combined[j].t0 > combined[i].t0

\* C9: a slack event is inserted for an entity exactly when its earliest event
\* would start before its dependees' contributed events end; then there is one
\* slack event, its id starts with slack, it stands right before the entity's
\* first event, its dt is the gap, its t0 the point of resumption, its prob 1.0.
SlackAt(e) == { i \in Positions(e) : IsSlack(combined[i]) }

NeedsSlack(e) ==
    Dependees(e) # {} /\ StartOf(EntityOf(e).timeline) < DependeesEnd(e)

C9_Slack ==
    Scheduled =>
      \A e \in registered :
         /\ NeedsSlack(e) <=> SlackAt(e) # {}
         /\ Cardinality(SlackAt(e)) <= 1
         /\ \A i \in SlackAt(e) :
              /\ i = MinOf(Positions(e))
              /\ i + 1 \in OwnEvents(e)
              /\ SubSeq(combined, i + 1, MaxOf(Positions(e)))
                   = Shifted(EntityOf(e).timeline, combined[i].dt)
              /\ combined[i].dt = DependeesEnd(e) - StartOf(EntityOf(e).timeline)
              /\ combined[i].t0 = DependeesEnd(e)
              /\ combined[i].prob = 100

C9_Witness ==
    /\ Scheduled
    /\ \E e \in registered : Dependees(e) # {} /\ SlackAt(e) # {}
    /\ \E e \in registered : Dependees(e) # {} /\ SlackAt(e) = {}

\* C10 as stated: every registered entity's timeline holds its goal event.
HoldsGoal(ent) == ent.goal \in Range(ent.timeline)

\* C10 as stated, whatever the generator returned
C10_GoalAlwaysInTimeline ==
    \A i \in 1..Len(entities) : HoldsGoal(entities[i])

\* C10 as amended: every registered entity keeps its goal event in the goal
\* field, and the goal event is missing from the timeline only where a
\* generator call (at spawn, on the seeded timeline, or at regenerate) returned
\* a ChangeSet without it that replaced the timeline.
SeededOrCurrent(e) ==
    IF e \in registered THEN EntityOf(e)
    ELSE [EntityOf(e)' EXCEPT !.timeline = <<EntityOf(e)'.goal>>]

C10_GoalLost ==
    \A e \in EntityIds :
       (/\ e \in registered'
        /\ ~HoldsGoal(EntityOf(e))'
        /\ e \in registered => HoldsGoal(EntityOf(e))) =>
           /\ outcome'.generated
           /\ Truthy(Generate(SeededOrCurrent(e)))
           /\ EntityOf(e)'.timeline = Generate(SeededOrCurrent(e)).events

C10_GoalKept ==
    \A i \in 1..Len(entities) :
       /\ entities[i].goal.eid[1] = entities[i].eid
       /\ entities[i].goal.eid[2] = "goal"

\* C10 as amended, on every step
C10_GoalLostOnlyByGenerator == [][C10_GoalKept' /\ C10_GoalLost]_vars

C10_Witness ==
    /\ outcome.op = "regenerate"
    /\ \E i \in 1..Len(entities) : HoldsGoal(entities[i]) /\ Len(entities[i].timeline) = MaxLen
    /\ \E i \in 1..Len(entities) : ~HoldsGoal(entities[i])
    /\ \E i \in 1..Len(entities) : entities[i].timeline = <<entities[i].goal>>

\* C11: multi_entity_schedule leaves schemas, entities (their order,
\* timelines, goals and priorities) and every edge as they were, whether it
\* returns a timeline or fails with CycleError.
C11_ScheduleReadsOnly ==
    [][outcome'.op = "multi_entity_schedule" =>
          /\ outcome'.status \in {"ok", "CycleError"}
          /\ schemas' = schemas
          /\ entities' = entities
          /\ deps' = deps]_vars

C11_Witness ==
    /\ outcome.op = "multi_entity_schedule"
    /\ outcome.status = "CycleError"
    /\ Len(entities) = 3
    /\ DOMAIN deps # registered

\* C12: on an acyclic graph multi_entity_schedule returns a timeline, never
\* CycleError; every event of every registered entity's timeline is in it
\* exactly once (offset in t0 by the entity's gap, otherwise as it is), and
\* every other event of it is a slack event.
RECURSIVE OwnSeq(_, _)
OwnSeq(e, i) ==
    IF i > Len(combined) THEN <<>>
    ELSE (IF owner[i] = e /\ ~IsSlack(combined[i]) THEN <<combined[i]>> ELSE <<>>)
         \o OwnSeq(e, i + 1)

GapOf(e) == IF SlackAt(e) = {} THEN 0 ELSE combined[MinOf(SlackAt(e))].dt

C12_Complete ==
    (outcome.op = "multi_entity_schedule" /\ ~HasCycle) =>
      /\ outcome.status = "ok"
      /\ Len(owner) = Len(combined)
      /\ Range(owner) \subseteq registered
      /\ \A e \in registered : OwnSeq(e, 1) = Shifted(EntityOf(e).timeline, GapOf(e))

C12_Witness ==
    /\ Scheduled
    /\ Len(entities) = 3
    /\ Cardinality({ p \in EntityIds \X EntityIds : DependsOn(p[1], p[2]) }) = MaxEdges
    /\ \E i \in 1..Len(combined) : IsSlack(combined[i])
    /\ \E e \in registered : Len(EntityOf(e).timeline) = MaxLen

\* C13: spawn with a type_id that is not registered fails with NotFound,
\* without calling the generator and with entities, schemas and edges as they
\* were; when the entity_id is registered too it fails with DuplicateKey.
C13_UnknownType ==
    [][outcome'.op = "spawn" =>
          \A e \in EntityIds : \A a \in SpawnArgs(e) :
             (a.type_id \notin DOMAIN schemas /\ spawn(e, a)) =>
                /\ outcome'.status = IF e \in registered THEN "DuplicateKey" ELSE "NotFound"
                /\ ~outcome'.generated
                /\ ontology' = ontology]_vars

C13_Witness ==
    /\ outcome.op = "spawn"
    /\ outcome.status = "NotFound"
    /\ "tea_entity" \in registered
    /\ "whale" \notin DOMAIN schemas

\* C14: add_schema with a type_id that is already registered fails with
\* DuplicateKey and changes nothing; a type_id keeps the Schema first
\* registered under it, and every entity's schema is the one registered
\* under its type_id.
C14_Duplicate ==
    outcome'.op = "add_schema" =>
       \A schema \in SchemaPool :
          (schema.type_id \in DOMAIN schemas /\ add_schema(schema)) =>
             /\ outcome'.status = "DuplicateKey"
             /\ ontology' = ontology

C14_FirstStays ==
    \A t \in DOMAIN schemas : t \in DOMAIN schemas' /\ schemas'[t] = schemas[t]

C14_EntitiesRefer ==
    \A i \in 1..Len(entities) :
       /\ entities[i].schema.type_id \in DOMAIN schemas
       /\ entities[i].schema = schemas[entities[i].schema.type_id]

\* C14: the three parts, the last on the state every step leads to
C14_FirstSchemaStays == [][C14_Duplicate /\ C14_FirstStays /\ C14_EntitiesRefer']_vars

C14_Witness ==
    /\ outcome.op = "add_schema"
    /\ outcome.status = "DuplicateKey"
    /\ "petunia_entity" \in registered
    /\ schemas["petunia"] = Schema("petunia", 70, 3)

\* C16: the pull of an entity counts the entities other than itself that
\* depend on it: effective_priority minus the base priority is the number of
\* dependers d # e, also once add_dependency(e, e) has been accepted.
C16_PullCountsOthers ==
    \A i \in 1..Len(entities) :
       effective_priority(entities[i]) - entities[i].priority
         = Cardinality(Dependers(entities[i].eid) \ {entities[i].eid})

\* C17: a pair has one kind; add_dependency on a pair that is linked already
\* sets its kind to the new one, leaves every other edge, the number of
\* edges and every effective priority as they were, and changes nothing when
\* the kind is the one the pair has.
OneKindPerPair ==
    \A a \in EntityIds : \A p, q \in dependencies_of(a) : p[1] = q[1] => p = q

C17_Relink ==
    (outcome'.op = "add_dependency" /\ outcome'.status = "ok") =>
       \A d, e \in EntityIds : \A k \in DepKinds(d, e) :
          (DependsOn(d, e) /\ add_dependency(d, e, k)) =>
             /\ <<e, k>> \in dependencies_of(d)'
             /\ <<d, k>> \in dependents_of(e)'
             /\ \A a, b \in EntityIds :
                  /\ DependsOn(a, b)' <=> DependsOn(a, b)
                  /\ (DependsOn(a, b) /\ <<a, b>> # <<d, e>>) => deps'[a][b] = deps[a][b]
             /\ \A i \in 1..Len(entities) :
                  effective_priority(entities[i])' = effective_priority(entities[i])
             /\ deps[d][e] = k => deps' = deps

\* C17: the relinking step, and one kind per pair in the state it leads to
C17_OneKind == [][C17_Relink /\ OneKindPerPair']_vars

C17_Witness ==
    /\ outcome.op = "add_dependency"
    /\ outcome.status = "ok"
    /\ DependsOn("whale_entity", "tea_entity")
    /\ deps["whale_entity"]["tea_entity"] = "blocks"
    /\ Cardinality({ p \in EntityIds \X EntityIds : DependsOn(p[1], p[2]) }) = MaxEdges

(***************************************************************************)
(* What a generator call leaves in a timeline.                             *)
(***************************************************************************)
Spawned == entities'[Len(entities')]

SpawnStep == outcome'.op = "spawn" /\ outcome'.status = "ok"

\* the spawn part of C18: None or an empty ChangeSet leaves the seeded
\* timeline of the one goal event, a non-empty ChangeSet is the timeline
C18_Spawn ==
    SpawnStep =>
       LET r == Generate([Spawned EXCEPT !.timeline = <<Spawned.goal>>])
       IN /\ Len(entities') = Len(entities) + 1
          /\ (r.isNone \/ r.events = <<>>) => Spawned.timeline = <<Spawned.goal>>
          /\ ~(r.isNone \/ r.events = <<>>) => Spawned.timeline = r.events

\* C18 as stated: regenerate keeps the timeline on None and replaces it by
\* what the generator returned otherwise.
C18_RegenerateAsStated ==
    outcome'.op = "regenerate" =>
       \A eid \in EntityIds :
          regenerate(eid) =>
             LET r == Generate(EntityOf(eid))
             IN /\ r.isNone => EntityOf(eid)'.timeline = EntityOf(eid).timeline
                /\ ~r.isNone => EntityOf(eid)'.timeline = r.events

C18_AsStated == [][C18_Spawn /\ C18_RegenerateAsStated]_vars

\* C18 as amended: regenerate keeps the timeline on None and on an empty
\* ChangeSet and replaces it by a non-empty ChangeSet, as spawn does.
C18_Regenerate ==
    outcome'.op = "regenerate" =>
       \A eid \in EntityIds :
          regenerate(eid) =>
             LET r == Generate(EntityOf(eid))
             IN /\ (r.isNone \/ r.events = <<>>) =>
                     EntityOf(eid)'.timeline = EntityOf(eid).timeline
                /\ ~(r.isNone \/ r.events = <<>>) => EntityOf(eid)'.timeline = r.events

C18_GeneratorResult == [][C18_Spawn /\ C18_Regenerate]_vars

C18_Witness ==
    /\ outcome.op = "regenerate"
    /\ Len(entities) = 3
    /\ EntityOf("petunia_entity").timeline = <<EntityOf("petunia_entity").goal>>
    /\ EntityOf("tea_entity").generator = "keep"
    /\ Len(EntityOf("whale_entity").timeline) = MaxLen

\* C19: regenerate changes the timeline of its own entity and nothing else:
\* not that entity's eid, schema, goal, priority or generator, not another
\* entity, not the registered entities and schemas, not an edge or an
\* effective priority.
C19_Frame ==
    outcome'.op = "regenerate" =>
       /\ schemas' = schemas
       /\ deps' = deps
       /\ Len(entities') = Len(entities)
       /\ \A eid \in EntityIds :
            regenerate(eid) =>
               \A i \in 1..Len(entities) :
                  /\ entities'[i] = [entities[i] EXCEPT !.timeline = entities'[i].timeline]
                  /\ entities[i].eid # eid => entities'[i] = entities[i]
                  /\ effective_priority(entities[i])' = effective_priority(entities[i])

C19_RegenerateFrame == [][C19_Frame]_vars

C19_Witness ==
    /\ outcome.op = "regenerate"
    /\ Len(entities) = 3
    /\ deps # EmptyMap
    /\ EntityOf("whale_entity").generator = "extend"
    /\ Len(EntityOf("whale_entity").timeline) = MaxLen
    /\ EntityOf("tea_entity").generator = "single"

\* C20: dependencies_of and dependents_of are converse views of the stored
\* edges, so their sizes add up to the same number over all ids; a lookup,
\* also of an id without edges or not registered, changes nothing.
RECURSIVE CountOver(_, _)
CountOver(ids, outgoing) ==
    IF ids = {} THEN 0
    ELSE LET x == CHOOSE y \in ids : TRUE
         IN (IF outgoing THEN Cardinality(dependencies_of(x))
             ELSE Cardinality(dependents_of(x)))
            + CountOver(ids \ {x}, outgoing)

C20_Converse ==
    /\ \A a, b \in EntityIds : \A k \in Kinds :
         <<b, k>> \in dependencies_of(a) <=> <<a, k>> \in dependents_of(b)
    /\ CountOver(EntityIds, TRUE) = CountOver(EntityIds, FALSE)

C20_LookupReadsOnly ==
    outcome'.op \in {"dependencies_of", "dependents_of"} =>
       /\ outcome'.status = "ok"
       /\ ontology' = ontology

\* C20: the views agree in the state every step that writes _deps leads to
\* (they agree on the empty map of a new Ontology), and lookups only read
C20_ConverseViews == [][(deps' # deps => C20_Converse') /\ C20_LookupReadsOnly]_vars

C20_Witness ==
    /\ outcome.op = "dependencies_of"
    /\ Len(entities) = 2
    /\ DOMAIN deps # {}
    /\ DOMAIN deps # registered
    /\ CountOver(EntityIds, TRUE) = 2

====
